---- MODULE Spec2Model ----
(***************************************************************************)
(* Model of BirdSQLOrchestrator (src/autogen_bird_sql/orchestrator.py):    *)
(* the group conversation driven by select_next_speaker under the          *)
(* GroupChat round cap, the extraction of the results from the chat        *)
(* history (_extract_results) and the rest of process_question (merge,     *)
(* direct execution, exception handler).                                   *)
(*                                                                         *)
(* A message text is abstracted to the sections the regular expressions    *)
(* of the selector and of the extractor look for; each role draws its      *)
(* text from a small set of representative texts.                          *)
(***************************************************************************)
EXTENDS Integers, Sequences, FiniteSets, TLC

\* ---------------------------------------------------------------- constants
MAX_REPAIR_ATTEMPTS == 3

MAX_CONSECUTIVE_AUTO_REPLY == 10

\* model bound: longest history the model lets the conversation build
\* (above the round cap, so that the cap and not the bound ends a run)
MaxHistory == 12

\* model bound: calls of process_question on one orchestrator
MaxCalls == 2

\* model bound: longest history handed to the extractor on its own
MaxExtractLen == 2

\* model bound: calls of load_config the program makes itself
MaxLoads == 2

\* model bound: orchestrators constructed in one process
MaxOrchestrators == 2

\* Python's None, as a field value
None == "None"

\* the speaker selector's None (no next speaker: the conversation ends)
NoSpeaker == "NoSpeaker"

Question == "question"

Roles == {"user", "interpreter", "schema", "generator", "executor", "validator", "repair"}

\* ------------------------------------------------------------ message texts
\* fence  : "none" | "sql" (```sql SELECT ...```) | "generic" (``` SELECT ...```)
\*          | "sql_other" (```sql ...```, the statement does not begin with SELECT)
\*          | "generic_lower" (``` select ...```, the keyword in lower case)
\* fenceQ : the query inside the fence
\* label  : "none" | "sql_query" (SQL QUERY: q) | "repaired" (REPAIRED SQL QUERY: q)
\* labelQ : the query after the label
\* labelFenced: the query after the label is written inside a ```sql fence
\* free   : the text holds a free-standing statement SELECT ...; (outside any
\*          fence or labeled section);  freeQ: that statement
\* val    : "none" | "PASS" | "FAIL" (VALIDATION: PASS/FAIL as written)
\*          | "pass" | "fail" (the marker written in lower case)
\*          | "FAIL_PASS" (VALIDATION: FAIL and, further down, VALIDATION: PASS)
\* valExpl: the text after the marker up to the blank line ("" when there is none)
\* exec   : "none" | "json" | "empty" | "raw": an EXECUTION RESULTS: section
\*          holding a non-empty JSON value, an empty JSON value, unparsable text
\* err    : "none" | "sql_error" | "error" | "analysis": a SQL ERROR: / ERROR: /
\*          ERROR ANALYSIS: section;  errText: its text
\* errorWord: the lower-cased text contains "error"
Plain ==
    [fence |-> "none", fenceQ |-> None, label |-> "none", labelQ |-> None,
     val |-> "none", valExpl |-> "", exec |-> "none",
     err |-> "none", errText |-> None, errorWord |-> FALSE,
     labelFenced |-> FALSE, free |-> FALSE, freeQ |-> None]

FencedSql(q) == [Plain EXCEPT !.fence = "sql", !.fenceQ = q]

FencedGeneric(q) == [Plain EXCEPT !.fence = "generic", !.fenceQ = q]

\* ```sql WITH ... ```: a tagged fence whose statement does not begin with SELECT
FencedOther(q) == [Plain EXCEPT !.fence = "sql_other", !.fenceQ = q]

\* ``` select ... ```: an untagged fence, the keyword in lower case
FencedLower(q) == [Plain EXCEPT !.fence = "generic_lower", !.fenceQ = q]

\* SQL QUERY: SELECT ... (no fence)
LabeledSql(q) == [Plain EXCEPT !.label = "sql_query", !.labelQ = q]

\* SQL QUERY: followed by the query in a ```sql fence
LabeledFenced(q) ==
    [Plain EXCEPT !.label = "sql_query", !.labelQ = q, !.labelFenced = TRUE,
                  !.fence = "sql", !.fenceQ = q]

\* SELECT ...; in the running text
FreeSelect(q) == [Plain EXCEPT !.free = TRUE, !.freeQ = q]

\* the text of a fence around the query q, markers included
InFence(q) == "fence[" \o q \o "]"

ExecReport == [Plain EXCEPT !.exec = "json"]

ExecSilent == Plain

\* EXECUTION RESULTS: followed by text that json.loads rejects (a text table)
ExecRaw == [Plain EXCEPT !.exec = "raw"]

\* EXECUTION RESULTS: []
ExecEmpty == [Plain EXCEPT !.exec = "empty"]

ExecError == [Plain EXCEPT !.err = "sql_error", !.errText = "no such column", !.errorWord = TRUE]

ValPass == [Plain EXCEPT !.val = "PASS"]

ValFail == [Plain EXCEPT !.val = "FAIL", !.valExpl = "wrong rows"]

ValLowerPass == [Plain EXCEPT !.val = "pass"]

\* a failed first check and a passed second one, reported in one message
ValFailThenPass == [Plain EXCEPT !.val = "FAIL_PASS", !.valExpl = "wrong rows"]

Repaired(q) == [Plain EXCEPT !.label = "repaired", !.labelQ = q,
                             !.err = "analysis", !.errText = "analysis", !.errorWord = TRUE]

\* REPAIRED SQL QUERY: followed by the query in a ```sql fence
RepairedFenced(q) ==
    [Plain EXCEPT !.label = "repaired", !.labelQ = q, !.labelFenced = TRUE,
                  !.fence = "sql", !.fenceQ = q,
                  !.err = "analysis", !.errText = "analysis", !.errorWord = TRUE]

RepairVague == Plain

InitialMessage == Plain

\* a text that carries every signal the selector looks for: a fenced SELECT,
\* the word "error" and "validation: pass" (an Interpreter or SchemaRetriever
\* that quotes an example, for instance)
Signals ==
    [Plain EXCEPT !.fence = "sql", !.fenceQ = "Q0", !.errorWord = TRUE, !.val = "pass"]

\* the texts a role may answer with
RoleTexts(role) ==
    CASE role = "interpreter" -> {Plain, Signals}
      [] role = "schema"      -> {Plain, Signals}
      [] role = "generator"   -> {Plain, FencedSql("Q1"), FencedGeneric("Q2")}
      [] role = "executor"    -> {ExecReport, ExecSilent, ExecError}
      [] role = "validator"   -> {ValPass, ValFail, ValLowerPass, Plain}
      [] role = "repair"      -> {Repaired("Q2"), RepairVague}
      [] OTHER                -> {Plain}

VARIABLES
    pc,         \* "start" | "chat" | "done": position in process_question
    messages,   \* the group chat's history: sequence of [name, content]
    result,     \* the result dictionary of process_question
    outcome,    \* "running" | "returned" | "raised"
    dbExists,   \* os.path.exists(db_file_path)
    config,     \* config["agents"] of the configuration load_config returned
    execCalls,  \* calls of executor.execute_sql made by process_question
    repairCalls,\* calls of repair.repair_sql made by process_question
    calls,      \* calls of process_question made on this orchestrator so far
    executor_db_path, \* self.agents["executor"].db_path: kept between the calls
    prev,       \* the history and the result of the call before, when recorded
    probe       \* input and output of one application of select_next_speaker

vars == <<pc, messages, result, outcome, dbExists, config, execCalls, repairCalls,
          calls, executor_db_path, prev, probe>>

Last(s) == s[Len(s)]

\* ------------------------------------------------------- select_next_speaker
\* re.search(r"```(?:sql)?[\s\n]*(SELECT[\s\S]*?)[\s\n]*```", last_content, re.IGNORECASE)
GeneratorSqlPattern(c) == c.fence \in {"sql", "generic", "generic_lower"}

ContainsError(c) == c.errorWord

ContainsValidationPass(c) == c.val \in {"PASS", "pass", "FAIL_PASS"}

ContainsValidationFail(c) == c.val \in {"FAIL", "fail", "FAIL_PASS"}

\* variant: a Generator message is always followed by the Executor
select_next_speaker_executorAlways(msgs, sender) ==
    IF Len(msgs) = 0 THEN "interpreter"
    ELSE CASE sender = "user"        -> "interpreter"
           [] sender = "interpreter" -> "schema"
           [] sender = "schema"      -> "generator"
           [] sender = "generator"   -> "executor"
           [] sender = "executor"    ->
                IF ContainsError(Last(msgs).content) THEN "repair" ELSE "validator"
           [] sender = "validator"   ->
                IF ContainsValidationPass(Last(msgs).content) THEN NoSpeaker ELSE "repair"
           [] sender = "repair"      -> "generator"
           [] OTHER                  -> "user"

\* variant: no default branch; an unknown last speaker yields no agent at all
select_next_speaker_noDefault(msgs, sender) ==
    IF Len(msgs) = 0 THEN "interpreter"
    ELSE CASE sender = "user"        -> "interpreter"
           [] sender = "interpreter" -> "schema"
           [] sender = "schema"      -> "generator"
           [] sender = "generator"   ->
                IF GeneratorSqlPattern(Last(msgs).content) THEN "executor" ELSE "interpreter"
           [] sender = "executor"    ->
                IF ContainsError(Last(msgs).content) THEN "repair" ELSE "validator"
           [] sender = "validator"   ->
                IF ContainsValidationPass(Last(msgs).content) THEN NoSpeaker ELSE "repair"
           [] sender = "repair"      -> "generator"
           [] OTHER                  -> "unknown agent"

\* variant: the Executor is always followed by the Validator
select_next_speaker_executorToValidator(msgs, sender) ==
    IF Len(msgs) = 0 THEN "interpreter"
    ELSE CASE sender = "user"        -> "interpreter"
           [] sender = "interpreter" -> "schema"
           [] sender = "schema"      -> "generator"
           [] sender = "generator"   ->
                IF GeneratorSqlPattern(Last(msgs).content) THEN "executor" ELSE "interpreter"
           [] sender = "executor"    ->
                "validator"
           [] sender = "validator"   ->
                IF ContainsValidationPass(Last(msgs).content) THEN NoSpeaker ELSE "repair"
           [] sender = "repair"      -> "generator"
           [] OTHER                  -> "user"

\* variant: a Validator message without a verdict ends the conversation
select_next_speaker_unknownEnds(msgs, sender) ==
    IF Len(msgs) = 0 THEN "interpreter"
    ELSE CASE sender = "user"        -> "interpreter"
           [] sender = "interpreter" -> "schema"
           [] sender = "schema"      -> "generator"
           [] sender = "generator"   ->
                IF GeneratorSqlPattern(Last(msgs).content) THEN "executor" ELSE "interpreter"
           [] sender = "executor"    ->
                IF ContainsError(Last(msgs).content) THEN "repair" ELSE "validator"
           [] sender = "validator"   ->
                IF ContainsValidationFail(Last(msgs).content) THEN "repair" ELSE NoSpeaker
           [] sender = "repair"      -> "generator"
           [] OTHER                  -> "user"

\* variant: a repaired query goes to the Executor at once
select_next_speaker_repairToExecutor(msgs, sender) ==
    IF Len(msgs) = 0 THEN "interpreter"
    ELSE CASE sender = "user"        -> "interpreter"
           [] sender = "interpreter" -> "schema"
           [] sender = "schema"      -> "generator"
           [] sender = "generator"   ->
                IF GeneratorSqlPattern(Last(msgs).content) THEN "executor" ELSE "interpreter"
           [] sender = "executor"    ->
                IF ContainsError(Last(msgs).content) THEN "repair" ELSE "validator"
           [] sender = "validator"   ->
                IF ContainsValidationPass(Last(msgs).content) THEN NoSpeaker ELSE "repair"
           [] sender = "repair"      ->
                IF Last(msgs).content.label = "repaired" THEN "executor" ELSE "generator"
           [] OTHER                  -> "user"

\* variant: the content signals are tested before the speaker
select_next_speaker_bySignal(msgs, sender) ==
    IF Len(msgs) = 0 THEN "interpreter"
    ELSE CASE GeneratorSqlPattern(Last(msgs).content) /\ sender # "user" -> "executor"
           [] sender = "user"        -> "interpreter"
           [] sender = "interpreter" -> "schema"
           [] sender = "schema"      -> "generator"
           [] sender = "generator"   ->
                IF GeneratorSqlPattern(Last(msgs).content) THEN "executor" ELSE "interpreter"
           [] sender = "executor"    ->
                IF ContainsError(Last(msgs).content) THEN "repair" ELSE "validator"
           [] sender = "validator"   ->
                IF ContainsValidationPass(Last(msgs).content) THEN NoSpeaker ELSE "repair"
           [] sender = "repair"      -> "generator"
           [] OTHER                  -> "user"

\* variant: a Generator message with SQL is handed to the Validator
select_next_speaker_skipExecutor(msgs, sender) ==
    IF Len(msgs) = 0 THEN "interpreter"
    ELSE LET last_content == Last(msgs).content IN
         CASE sender = "user"        -> "interpreter"
           [] sender = "interpreter" -> "schema"
           [] sender = "schema"      -> "generator"
           [] sender = "generator"   ->
                IF GeneratorSqlPattern(last_content) THEN "validator" ELSE "interpreter"
           [] sender = "executor"    ->
                IF ContainsError(last_content) THEN "repair" ELSE "validator"
           [] sender = "validator"   ->
                IF ContainsValidationPass(last_content) THEN NoSpeaker
                ELSE IF ContainsValidationFail(last_content) THEN "repair"
                ELSE "repair"
           [] sender = "repair"      -> "generator"
           [] OTHER                  -> "user"

\* variant: a Generator message without SQL ends the conversation
select_next_speaker_generatorEnds(msgs, sender) ==
    IF Len(msgs) = 0 THEN "interpreter"
    ELSE LET last_content == Last(msgs).content IN
         CASE sender = "user"        -> "interpreter"
           [] sender = "interpreter" -> "schema"
           [] sender = "schema"      -> "generator"
           [] sender = "generator"   ->
                IF GeneratorSqlPattern(last_content) THEN "executor" ELSE NoSpeaker
           [] sender = "executor"    ->
                IF ContainsError(last_content) THEN "repair" ELSE "validator"
           [] sender = "validator"   ->
                IF ContainsValidationPass(last_content) THEN NoSpeaker
                ELSE IF ContainsValidationFail(last_content) THEN "repair"
                ELSE "repair"
           [] sender = "repair"      -> "generator"
           [] OTHER                  -> "user"

select_next_speaker(msgs, sender) ==
    IF Len(msgs) = 0 THEN "interpreter"
    ELSE LET last_content == Last(msgs).content IN
         CASE sender = "user"        -> "interpreter"
           [] sender = "interpreter" -> "schema"
           [] sender = "schema"      -> "generator"
           [] sender = "generator"   ->
                IF GeneratorSqlPattern(last_content) THEN "executor" ELSE "interpreter"
           [] sender = "executor"    ->
                IF ContainsError(last_content) THEN "repair" ELSE "validator"
           [] sender = "validator"   ->
                IF ContainsValidationPass(last_content) THEN NoSpeaker
                ELSE IF ContainsValidationFail(last_content) THEN "repair"
                ELSE "repair"
           [] sender = "repair"      -> "generator"
           [] OTHER                  -> "user"

\* ------------------------------------------------------------ the group chat
\* GroupChat(max_round=MAX_CONSECUTIVE_AUTO_REPLY): the chat stops once the
\* history holds max_round messages
\* variant: the cap is applied two rounds late
RoundLimitReached_late(msgs) == Len(msgs) >= MAX_CONSECUTIVE_AUTO_REPLY + 2

\* variant: no cap on the rounds
RoundLimitReached_never(msgs) == FALSE

RoundLimitReached(msgs) == Len(msgs) >= MAX_CONSECUTIVE_AUTO_REPLY

NextSpeaker(msgs) == select_next_speaker(msgs, Last(msgs).name)

\* variant: a None from the selector does not end the chat
ChatOver_capOnly(msgs) == RoundLimitReached(msgs)

ChatOver(msgs) == RoundLimitReached(msgs) \/ NextSpeaker(msgs) = NoSpeaker

\* ---------------------------------------------------------- _extract_results
\* the first of sql_patterns that matches the text, and what it captures:
\*   SQL QUERY: (also found inside REPAIRED SQL QUERY:), ```sql, ``` SELECT,
\*   REPAIRED SQL QUERY:
SqlMatch(c) ==
    IF c.label \in {"sql_query", "repaired"}
    THEN IF c.labelFenced THEN InFence(c.labelQ) ELSE c.labelQ
    ELSE IF c.fence \in {"sql", "sql_other"} THEN c.fenceQ
    ELSE IF c.fence = "generic" THEN c.fenceQ
    ELSE IF c.label = "repaired" THEN c.labelQ
    ELSE None

\* validation_patterns are matched as written (no re.IGNORECASE): group(1) of
\* the leftmost match
ValidationMatch(c) ==
    IF c.val \in {"PASS", "FAIL"} THEN c.val
    ELSE IF c.val = "FAIL_PASS" THEN "FAIL"
    ELSE None

\* error_patterns: SQL ERROR: / ERROR: / ERROR ANALYSIS:
ErrorMatch(c) == IF c.err # "none" THEN c.errText ELSE None

EmptyResults ==
    [sql |-> None, execution_results |-> None, validation_status |-> None,
     error_message |-> None, raw_output |-> None]

\* the four steps of the loop body, for one message text c
\* "Extract SQL query if not already found"
ExtractSql(r, c) ==
    IF r.sql = None /\ SqlMatch(c) # None THEN [r EXCEPT !.sql = SqlMatch(c)] ELSE r

\* "Extract execution results if not already found": json.loads of the
\* section, or the raw text under the key raw_output when it does not parse
ExtractExecution(r, c) ==
    IF r.execution_results = None /\ c.exec # "none"
    THEN IF c.exec = "json" THEN [r EXCEPT !.execution_results = "rows"]
         ELSE IF c.exec = "empty" THEN [r EXCEPT !.execution_results = "empty"]
         ELSE IF r.raw_output = None THEN [r EXCEPT !.raw_output = "raw"]
         ELSE r
    ELSE r

\* "Extract validation status if not already found"; group(2), when not
\* empty, is stored as the error message
ExtractValidation(r, c) ==
    IF r.validation_status = None /\ ValidationMatch(c) # None
    THEN IF c.valExpl # ""
         THEN [r EXCEPT !.validation_status = ValidationMatch(c), !.error_message = c.valExpl]
         ELSE [r EXCEPT !.validation_status = ValidationMatch(c)]
    ELSE r

\* "Extract error message if not already found"
ExtractError(r, c) ==
    IF r.error_message = None /\ ErrorMatch(c) # None
    THEN [r EXCEPT !.error_message = ErrorMatch(c)] ELSE r

\* the body of the loop over chat_history, for one message: the four steps
\* in the order of the code, each on the result of the one before
ExtractMessage(results, c) ==
    CHOOSE r4 \in {ExtractError(r3, c) :
                     r3 \in {ExtractValidation(r2, c) :
                              r2 \in {ExtractExecution(r1, c) :
                                       r1 \in {ExtractSql(r0, c) : r0 \in {results}}}}} : TRUE

RECURSIVE ExtractFrom(_, _, _)
ExtractFrom(results, chat_history, i) ==
    IF i > Len(chat_history) THEN results
    ELSE ExtractFrom(ExtractMessage(results, chat_history[i].content), chat_history, i + 1)

_extract_results(chat_history) == ExtractFrom(EmptyResults, chat_history, 1)

\* --------------------------------------------------------- _get_chat_history
\* what manager.run returned: an object with the attribute chat_history, or
\* one with the attribute messages
ResponseKinds == {"chat_history", "messages"}

\* variant: the list is built back to front
_get_chat_history_reversed(response) ==
    [i \in 1..Len(response.history) |->
        response.history[Len(response.history) + 1 - i]]

\* response.chat_history as it is, or one {role, content} entry per message
\* of response.messages, in the order of the messages
_get_chat_history(response) ==
    IF response.kind = "chat_history" THEN response.history
    ELSE [i \in 1..Len(response.history) |->
            [role |-> IF response.history[i].name = "user" THEN "user" ELSE "assistant",
             content |-> response.history[i].content]]

\* ----------------------------------------------------------- process_question
\* result = {...}, lines 300-306: the verdict starts as FAIL
\* variant: the verdict starts as PASS
InitialResult_pass ==
    [question |-> Question, sql |-> None, execution_results |-> None,
     validation_status |-> "PASS", error_message |-> None]

InitialResult ==
    [question |-> Question, sql |-> None, execution_results |-> None,
     validation_status |-> "FAIL", error_message |-> None]

\* nothing is recorded of a call before
NotRecorded == [recorded |-> FALSE, messages |-> <<>>, result |-> InitialResult]

\* result = {...} at the head of process_question: a new dictionary, whatever
\* the call before returned
\* variant: the dictionary of the call before is used again
NewResult_kept(old) == old

NewResult(old) == InitialResult

\* GroupChat(agents=..., messages=[], ...) in _setup_group_chat: a new chat
\* with an empty history, whatever the chat of the call before holds
\* variant: the chat of the call before is used again
NewGroupChat_stale(old) == old

NewGroupChat(old) == <<>>

\* Python truth of an extracted value
Truthy(v) == v \notin {None, "", "empty"}

\* if extracted_results[k]: result[k] = extracted_results[k]
\* variant: the extracted value is copied without the test
MergeField_always(old, extracted) == extracted

MergeField(old, extracted) == IF Truthy(extracted) THEN extracted ELSE old

MergeResults(res, extracted) ==
    [res EXCEPT !.sql = MergeField(@, extracted.sql),
                !.execution_results = MergeField(@, extracted.execution_results),
                !.validation_status = MergeField(@, extracted.validation_status),
                !.error_message = MergeField(@, extracted.error_message)]

\* str(e) of the exceptions of the model
ErrorText(e) ==
    CASE e = "AttributeError" -> "Error: 'coroutine' object has no attribute 'get'"
      [] e = "DispatchFailure" -> "Error: dispatch failure"
      [] OTHER -> "Error: unknown"

\* except Exception as e: result["error_message"] = f"Error: {str(e)}"; return result
\* variant: the exception is raised again
ExceptHandler_reraise(res, e) == [result |-> res, outcome |-> "raised"]

ExceptHandler(res, e) ==
    [result |-> [res EXCEPT !.error_message = ErrorText(e)], outcome |-> "returned"]

\* executor.execute_sql is declared async def and called without await: the
\* call returns a coroutine object, not the dictionary
\* variant: the call yields the dictionary of a successful execution
execute_sql_dict(sql) == [kind |-> "dict", success |-> TRUE, sql_query |-> sql]

execute_sql(sql) == [kind |-> "coroutine", sql_query |-> sql]

\* repair.repair_sql is declared async def as well
repair_sql(original_sql) == [kind |-> "coroutine", original_sql |-> original_sql]

\* "If we have SQL but no execution results, execute it directly"
NeedsDirectExecution(res) == Truthy(res.sql) /\ res.execution_results = None

\* lines 371-402, entered when execute_sql handed back a dictionary: success
\* stores it with verdict PASS; otherwise repair_sql is called once, and only
\* a dictionary with a repaired query leads to the second execute_sql. An
\* exception in this part is caught by the inner handler (line 401).
RepairBranch(res, execution_result) ==
    IF execution_result.success
    THEN [result |-> [res EXCEPT !.execution_results = "rows",
                                 !.validation_status = "PASS"],
          execCalls |-> 1, repairCalls |-> 0]
    ELSE LET repair_result == repair_sql(res.sql) IN
         IF repair_result.kind # "dict" \/ ~Truthy(repair_result.repaired_sql)
         THEN [result |-> [res EXCEPT !.error_message = "Could not repair SQL"],
               execCalls |-> 1, repairCalls |-> 1]
         ELSE LET repaired == [res EXCEPT !.sql = repair_result.repaired_sql]
                  repair_execution == execute_sql(repaired.sql)
              IN [result |->
                     IF repair_execution.kind = "coroutine"
                     THEN [repaired EXCEPT !.error_message = "Error during SQL repair"]
                     ELSE IF repair_execution.success
                     THEN [repaired EXCEPT !.execution_results = "rows",
                                           !.validation_status = "PASS"]
                     ELSE [repaired EXCEPT !.error_message = "Repair failed"],
                  execCalls |-> 2, repairCalls |-> 1]

\* lines 358-404. With the database file present the executor's db_path is set
\* to the file (set_db_path) and execute_sql is called once;
\* execution_result.get("success", False) on the coroutine it returned raises
\* AttributeError, which leaves the try block before the success branch and
\* before the repair branch (repair_sql, second execute_sql) are entered.
\* variant: the recovery repairs and executes again until the cap of repair
\* attempts is reached
DirectExecution_untilCap(res, db_exists) ==
    IF ~NeedsDirectExecution(res)
    THEN [result |-> res, outcome |-> "returned", execCalls |-> 0, repairCalls |-> 0,
          set_db_path |-> FALSE]
    ELSE [result |-> [res EXCEPT !.error_message = "Repair failed"],
          outcome |-> "returned", execCalls |-> MAX_REPAIR_ATTEMPTS + 1,
          repairCalls |-> MAX_REPAIR_ATTEMPTS, set_db_path |-> db_exists]

DirectExecution(res, db_exists) ==
    IF ~NeedsDirectExecution(res)
    THEN [result |-> res, outcome |-> "returned", execCalls |-> 0, repairCalls |-> 0,
          set_db_path |-> FALSE]
    ELSE IF db_exists
         THEN LET execution_result == execute_sql(res.sql)
                  h == ExceptHandler(res, "AttributeError")
              IN IF execution_result.kind = "coroutine"
                 THEN [result |-> h.result, outcome |-> h.outcome,
                       execCalls |-> 1, repairCalls |-> 0, set_db_path |-> TRUE]
                 ELSE LET r == RepairBranch(res, execution_result)
                      IN [result |-> r.result, outcome |-> "returned",
                          execCalls |-> r.execCalls, repairCalls |-> r.repairCalls,
                          set_db_path |-> TRUE]
         ELSE [result |-> [res EXCEPT !.error_message = "Database file not found"],
               outcome |-> "returned", execCalls |-> 0, repairCalls |-> 0,
               set_db_path |-> FALSE]

\* config["agents"] after load_config: the defaults of DEFAULT_CONFIG, or the
\* values of a configuration file that sets a smaller limit
ConfigFiles ==
    {[max_repair_attempts |-> 3, max_consecutive_replies |-> 10],
     [max_repair_attempts |-> 1, max_consecutive_replies |-> 10],
     [max_repair_attempts |-> 3, max_consecutive_replies |-> 5]}

TypeOK ==
    /\ pc \in {"start", "chat", "done", "select", "selected", "execute", "executed",
              "extract", "extracted", "validate", "validated", "config"}
    /\ outcome \in {"running", "returned", "raised"}
    /\ dbExists \in BOOLEAN
    /\ execCalls \in 0..2
    /\ repairCalls \in 0..1
    /\ config \in ConfigFiles
    /\ Len(messages) <= MaxHistory
    /\ \A i \in 1..Len(messages) : messages[i].name \in Roles
    /\ calls \in 1..MaxCalls
    /\ executor_db_path \in {"directory", "db_file"}

Init ==
    /\ pc = "start"
    /\ messages = <<>>
    /\ result = InitialResult
    /\ outcome = "running"
    /\ dbExists \in BOOLEAN
    /\ config \in ConfigFiles
    /\ execCalls = 0
    /\ repairCalls = 0
    /\ calls = 1
    /\ executor_db_path = "directory"
    /\ prev = NotRecorded
    /\ probe = None

\* manager.run(user, message=initial_message): the user's message opens the chat
StartChat ==
    /\ pc = "start"
    /\ messages' = Append(messages, [name |-> "user", content |-> InitialMessage])
    /\ pc' = "chat"
    /\ UNCHANGED <<result, outcome, dbExists, config, execCalls, repairCalls>>
    /\ UNCHANGED <<calls, executor_db_path, prev, probe>>

\* one round of the group chat: the selected role answers, its message is appended
Dispatch ==
    /\ pc = "chat"
    /\ ~ChatOver(messages)
    /\ Len(messages) < MaxHistory
    /\ \E text \in RoleTexts(NextSpeaker(messages)) :
          messages' = Append(messages, [name |-> NextSpeaker(messages), content |-> text])
    /\ UNCHANGED <<pc, result, outcome, dbExists, config, execCalls, repairCalls>>
    /\ UNCHANGED <<calls, executor_db_path, prev, probe>>

\* the role's reply raises inside manager.run: the exception reaches the
\* handler of process_question
DispatchFails ==
    /\ pc = "chat"
    /\ ~ChatOver(messages)
    /\ LET h == ExceptHandler(result, "DispatchFailure") IN
          /\ result' = h.result
          /\ outcome' = h.outcome
    /\ pc' = "done"
    /\ UNCHANGED <<messages, dbExists, config, execCalls, repairCalls>>
    /\ UNCHANGED <<calls, executor_db_path, prev, probe>>

\* manager.run returns: lines 343-410
Finish ==
    /\ pc = "chat"
    /\ ChatOver(messages)
    /\ \E kind \in ResponseKinds :
       \E chat_history \in {_get_chat_history([kind |-> kind, history |-> messages])} :
       \E extracted_results \in {_extract_results(chat_history)} :
       \E d \in {DirectExecution(MergeResults(result, extracted_results), dbExists)} :
          /\ result' = d.result
          /\ outcome' = d.outcome
          /\ execCalls' = execCalls + d.execCalls
          /\ repairCalls' = repairCalls + d.repairCalls
          /\ executor_db_path' = IF d.set_db_path THEN "db_file" ELSE executor_db_path
    /\ pc' = "done"
    /\ UNCHANGED <<messages, dbExists, config, calls, prev, probe>>

Next == StartChat \/ Dispatch \/ DispatchFails \/ Finish

Spec == Init /\ [][Next]_vars

\* the runs in which every external call returns
NextReturning == StartChat \/ Dispatch \/ Finish

ReturningSpec == Init /\ [][NextReturning]_vars /\ WF_vars(NextReturning)

\* ------------------------------------- several calls on the same orchestrator
\* the head of one more call of process_question on the same object: the
\* result dictionary and the group chat are made anew; the agents (and with
\* them the executor's db_path) and the configuration stay. db_exists is
\* os.path.exists for the database of the new question; p is what is recorded
\* of the call that has just returned.
BeginCall(db_exists, p) ==
    /\ pc = "done"
    /\ calls < MaxCalls
    /\ calls' = calls + 1
    /\ result' = NewResult(result)
    /\ messages' = NewGroupChat(messages)
    /\ outcome' = "running"
    /\ execCalls' = 0
    /\ repairCalls' = 0
    /\ dbExists' = db_exists
    /\ prev' = p
    /\ pc' = "start"
    /\ UNCHANGED <<config, executor_db_path, probe>>

\* the next question, on any database
NextCall == \E db_exists \in BOOLEAN : BeginCall(db_exists, prev)

RepeatedNext == Next \/ NextCall

RepeatedSpec == Init /\ [][RepeatedNext]_vars

\* the same question again, with the same execution outcomes (the database
\* file is as it was); the call before is recorded
SameQuestionAgain ==
    BeginCall(dbExists, [recorded |-> TRUE, messages |-> messages, result |-> result])

\* the call before ended by a failing dispatch, not by the end of the chat
FailedBefore == ~ChatOver(prev.messages)

FirstCall == ~prev.recorded /\ Next

ReplayStart == prev.recorded /\ StartChat

\* the role that speaks answers with the text it gave in the call before
ReplayDispatch ==
    /\ prev.recorded
    /\ Len(messages) < Len(prev.messages)
    /\ Dispatch
    /\ Last(messages').content = prev.messages[Len(messages) + 1].content

\* the dispatch that failed in the call before fails again
ReplayDispatchFails ==
    /\ prev.recorded
    /\ Len(messages) = Len(prev.messages)
    /\ FailedBefore
    /\ DispatchFails

ReplayFinish == prev.recorded /\ Finish

ReplayNext ==
    \/ FirstCall
    \/ SameQuestionAgain
    \/ ReplayStart
    \/ ReplayDispatch
    \/ ReplayDispatchFails
    \/ ReplayFinish

ReplaySpec == Init /\ [][ReplayNext]_vars

\* ------------------------------------------- select_next_speaker on its own
\* every text of the model
AllTexts == UNION {RoleTexts(role) : role \in Roles}

\* the last speaker handed to the selector: one of the agents, or none of them
Senders == Roles \cup {None}

\* the histories handed to the selector: the empty one, and every one-message
\* history (the selector reads messages[-1] only)
SelectorHistories ==
    {<<>>} \cup {<<[name |-> name, content |-> text]>> : name \in Roles, text \in AllTexts}

InitSelector ==
    /\ pc = "select"
    /\ messages \in SelectorHistories
    /\ probe \in [sender : Senders, next : {"not called"}]
    /\ result = InitialResult
    /\ outcome = "running"
    /\ dbExists = TRUE
    /\ config \in {c \in ConfigFiles : c.max_repair_attempts = MAX_REPAIR_ATTEMPTS
                                        /\ c.max_consecutive_replies = MAX_CONSECUTIVE_AUTO_REPLY}
    /\ execCalls = 0
    /\ repairCalls = 0
    /\ calls = 1
    /\ executor_db_path = "directory"
    /\ prev = NotRecorded

\* one call select_next_speaker(messages, sender)
ApplySelector ==
    /\ pc = "select"
    /\ probe' = [probe EXCEPT !.next = select_next_speaker(messages, probe.sender)]
    /\ pc' = "selected"
    /\ UNCHANGED <<messages, result, outcome, dbExists, config, execCalls, repairCalls,
                   calls, executor_db_path, prev>>

SelectorSpec == InitSelector /\ [][ApplySelector]_vars

\* --------------------------------------------------- the extractors on their own
\* SQLGeneratorAgent._extract_sql: ```sql block, ``` block with SELECT,
\* SELECT ...; and, when none is found, the text itself
WholeText == "the text itself"

SQLGeneratorAgent_extract_sql(c) ==
    IF c.fence \in {"sql", "sql_other"} THEN c.fenceQ
    ELSE IF c.fence = "generic" THEN c.fenceQ
    ELSE IF c.free THEN c.freeQ
    ELSE WholeText

\* AutoRepairAgent._extract_sql: the REPAIRED SQL QUERY: section with the fence
\* markers removed, else a fenced SELECT (re.IGNORECASE), else a line that
\* begins with SELECT, else None
AutoRepairAgent_extract_sql(c) ==
    IF c.label = "repaired" THEN c.labelQ
    ELSE IF c.fence \in {"sql", "generic", "generic_lower"} THEN c.fenceQ
    ELSE IF c.free THEN c.freeQ
    ELSE None

\* the texts the extractors are applied to, by the role that writes them
ExtractorRoleTexts(role) ==
    CASE role = "generator" ->
           {Plain, FencedSql("Q1"), FencedGeneric("Q2"), FencedOther("Q3"), FencedLower("Q2"),
            LabeledSql("Q1"), LabeledFenced("Q1"), FreeSelect("Q1")}
      [] role = "executor"  -> {ExecReport, ExecError, ExecRaw, ExecEmpty}
      [] role = "validator" -> {ValPass, ValFail, ValLowerPass, ValFailThenPass}
      [] role = "repair"    -> {Repaired("Q2"), RepairedFenced("Q2"), RepairVague}
      [] OTHER              -> {Plain}

ExtractorMessages ==
    UNION {{[name |-> role, content |-> text] : text \in ExtractorRoleTexts(role)} :
              role \in {"generator", "executor", "validator", "repair"}}

ExtractorHistories == UNION {[1..n -> ExtractorMessages] : n \in 1..MaxExtractLen}

InitExtractor ==
    /\ pc = "extract"
    /\ messages \in ExtractorHistories
    /\ probe = [extracted |-> EmptyResults, merged |-> InitialResult, next |-> "not called",
                generator_sql |-> "not called", repair_sql |-> "not called"]
    /\ result = InitialResult
    /\ outcome = "running"
    /\ dbExists = TRUE
    /\ config \in {c \in ConfigFiles : c.max_repair_attempts = MAX_REPAIR_ATTEMPTS
                                        /\ c.max_consecutive_replies = MAX_CONSECUTIVE_AUTO_REPLY}
    /\ execCalls = 0
    /\ repairCalls = 0
    /\ calls = 1
    /\ executor_db_path = "directory"
    /\ prev = NotRecorded

\* _extract_results on the history and the merge into a new result; the
\* selector and the two agents' _extract_sql on the last message
ApplyExtractor ==
    /\ pc = "extract"
    /\ \E extracted \in {_extract_results(messages)} :
          probe' = [extracted |-> extracted,
                    merged |-> MergeResults(InitialResult, extracted),
                    next |-> NextSpeaker(messages),
                    generator_sql |-> SQLGeneratorAgent_extract_sql(Last(messages).content),
                    repair_sql |-> AutoRepairAgent_extract_sql(Last(messages).content)]
    /\ pc' = "extracted"
    /\ UNCHANGED <<messages, result, outcome, dbExists, config, execCalls, repairCalls,
                   calls, executor_db_path, prev>>

ExtractorSpec == InitExtractor /\ [][ApplyExtractor]_vars

\* ------------------------------------------------- the SQL executor's methods
\* what lies at the path the executor opens: a database file, nothing, a
\* directory (the db_path the agent is constructed with), a file that is not
\* a database
DbFiles == {"present", "missing", "directory", "not_a_database"}

\* the queries: one that returns rows, one that reads no table (SELECT 1), ones
\* that name a table or a column the database does not have, one that does
\* not parse
Queries ==
    {[kind |-> "rows", table |-> "country", column |-> "name"],
     [kind |-> "constant", table |-> None, column |-> None],
     [kind |-> "no_table", table |-> "t1", column |-> "name"],
     [kind |-> "no_table", table |-> "t2", column |-> "name"],
     [kind |-> "no_column", table |-> "country", column |-> "c1"],
     [kind |-> "no_column", table |-> "country", column |-> "c2"],
     [kind |-> "syntax", table |-> "country", column |-> "name"]}

NoError == [text |-> None, object |-> None, marker |-> None]

\* sqlite3.connect(path) and pd.read_sql_query(query, conn): the error raised
\* (NoError when the rows come back) and whether the query was handed to
\* SQLite. connect creates an empty database where no file is.
RunQuery(db, query) ==
    CASE db = "directory" ->
           [error |-> [NoError EXCEPT !.text = "unable to open database file"], ran |-> FALSE]
      [] db = "not_a_database" ->
           [error |-> [NoError EXCEPT !.text = "file is not a database"], ran |-> TRUE]
      [] query.kind = "syntax" ->
           [error |-> [NoError EXCEPT !.text = "syntax error"], ran |-> TRUE]
      [] query.kind = "constant" -> [error |-> NoError, ran |-> TRUE]
      [] db = "missing" \/ query.kind = "no_table" ->
           [error |-> [NoError EXCEPT !.text = "no such table", !.object = query.table],
            ran |-> TRUE]
      [] query.kind = "no_column" ->
           [error |-> [NoError EXCEPT !.text = "no such column", !.object = query.column],
            ran |-> TRUE]
      [] OTHER -> [error |-> NoError, ran |-> TRUE]

\* the body of execute_sql (what the coroutine returns when it is awaited):
\* try: connect, read_sql_query; except Exception as e: error = str(e)
execute_sql_awaited(db, query) ==
    LET r == RunQuery(db, query) IN
    [success |-> r.error = NoError, error |-> r.error, ran |-> r.ran]

\* "Enhance error message with context": a line naming the table or column is
\* added to a "no such table" / "no such column" message
EnhanceError(error) ==
    IF error.text \in {"no such table", "no such column"}
    THEN [error EXCEPT !.marker = error.object]
    ELSE error

\* _execute_query(db_path, db_id, query): os.path.exists first, then the query
_execute_query(db, query) ==
    IF db = "missing"
    THEN [success |-> FALSE, error |-> [NoError EXCEPT !.text = "Database file not found"],
          ran |-> FALSE]
    ELSE LET r == RunQuery(db, query) IN
         IF r.error = NoError
         THEN [success |-> TRUE, error |-> NoError, ran |-> r.ran]
         ELSE [success |-> FALSE, error |-> EnhanceError(r.error), ran |-> r.ran]

ExecutorMethods == {"execute_sql", "_execute_query"}

InitExecutor ==
    /\ pc = "execute"
    /\ probe \in [method : ExecutorMethods, db : DbFiles, query : Queries,
                   out : {"not called"}]
    /\ messages = <<>>
    /\ result = InitialResult
    /\ outcome = "running"
    /\ dbExists = TRUE
    /\ config \in {c \in ConfigFiles : c.max_repair_attempts = MAX_REPAIR_ATTEMPTS
                                        /\ c.max_consecutive_replies = MAX_CONSECUTIVE_AUTO_REPLY}
    /\ execCalls = 0
    /\ repairCalls = 0
    /\ calls = 1
    /\ executor_db_path = "directory"
    /\ prev = NotRecorded

\* one call of a method of the executor, awaited
ApplyExecutor ==
    /\ pc = "execute"
    /\ probe' = [probe EXCEPT !.out =
                    IF probe.method = "execute_sql"
                    THEN execute_sql_awaited(probe.db, probe.query)
                    ELSE _execute_query(probe.db, probe.query)]
    /\ pc' = "executed"
    /\ UNCHANGED <<messages, result, outcome, dbExists, config, execCalls, repairCalls,
                   calls, executor_db_path, prev>>

ExecutorSpec == InitExecutor /\ [][ApplyExecutor]_vars

\* ------------------------------------------------- _check_validation_verdict
pass_markers == {"PASS", "CORRECT", "VALID", "SUCCESS"}

fail_markers == {"FAIL", "INCORRECT", "INVALID", "ERROR"}

\* a response of the Validator, as far as the check reads it:
\*   explicit: which of "VALIDATION: PASS" / "VALIDATION: FAIL" the upper-cased
\*             text contains ("none", "PASS", "FAIL", "both")
\*   all     : the markers the upper-cased text contains
\*   last    : the markers the last three sentences contain
\* The tests are substring tests: INCORRECT brings CORRECT with it, INVALID
\* brings VALID, and an explicit marker brings VALID (in VALIDATION) and PASS
\* or FAIL.
Responses ==
    {r \in [explicit : {"none", "PASS", "FAIL", "both"},
            all : SUBSET (pass_markers \cup fail_markers),
            last : SUBSET (pass_markers \cup fail_markers)] :
        /\ r.last \subseteq r.all
        /\ "INCORRECT" \in r.all => "CORRECT" \in r.all
        /\ "INCORRECT" \in r.last => "CORRECT" \in r.last
        /\ "INVALID" \in r.all => "VALID" \in r.all
        /\ "INVALID" \in r.last => "VALID" \in r.last
        /\ r.explicit # "none" => "VALID" \in r.all
        /\ r.explicit \in {"PASS", "both"} => "PASS" \in r.all
        /\ r.explicit \in {"FAIL", "both"} => "FAIL" \in r.all}

_check_validation_verdict(response) ==
    IF response.explicit \in {"PASS", "both"} THEN TRUE
    ELSE IF response.explicit = "FAIL" THEN FALSE
    ELSE LET pass_count == Cardinality(response.all \cap pass_markers)
             fail_count == Cardinality(response.all \cap fail_markers)
             pass_in_conclusion == response.last \cap pass_markers # {}
             fail_in_conclusion == response.last \cap fail_markers # {}
         IN IF (pass_count > 0 /\ fail_count > 0) \/ (pass_count = 0 /\ fail_count = 0)
            THEN IF pass_in_conclusion /\ ~fail_in_conclusion THEN TRUE
                 ELSE IF fail_in_conclusion /\ ~pass_in_conclusion THEN FALSE
                 ELSE pass_count > fail_count
            ELSE pass_count > 0

InitValidator ==
    /\ pc = "validate"
    /\ probe \in {[response |-> r, is_valid |-> "not called"] : r \in Responses}
    /\ messages = <<>>
    /\ result = InitialResult
    /\ outcome = "running"
    /\ dbExists = TRUE
    /\ config \in {c \in ConfigFiles : c.max_repair_attempts = MAX_REPAIR_ATTEMPTS
                                        /\ c.max_consecutive_replies = MAX_CONSECUTIVE_AUTO_REPLY}
    /\ execCalls = 0
    /\ repairCalls = 0
    /\ calls = 1
    /\ executor_db_path = "directory"
    /\ prev = NotRecorded

\* is_valid = self._check_validation_verdict(response)
ApplyValidator ==
    /\ pc = "validate"
    /\ probe' = [probe EXCEPT !.is_valid = _check_validation_verdict(probe.response)]
    /\ pc' = "validated"
    /\ UNCHANGED <<messages, result, outcome, dbExists, config, execCalls, repairCalls,
                   calls, executor_db_path, prev>>

ValidatorSpec == InitValidator /\ [][ApplyValidator]_vars

\* ------------------------------------------------------ load_config, __init__
\* DEFAULT_CONFIG as the module defines it: a dictionary whose values for
\* "llm", "database" and "agents" are dictionaries themselves
DEFAULT_CONFIG_literal ==
    [llm |-> [provider |-> "anthropic", model |-> "claude-3-7-sonnet-20250219"],
     database |-> [path |-> "./data/databases"],
     agents |-> [max_repair_attempts |-> MAX_REPAIR_ATTEMPTS,
                 max_consecutive_replies |-> MAX_CONSECUTIVE_AUTO_REPLY],
     debug_mode |-> FALSE]

\* the configuration files of the model
ConfigPaths == {"repair1.json", "rounds5.json", "database.yaml", "debug.json"}

\* json.load(f) / yaml.safe_load(f) of a configuration file
load_config_from_file(config_path) ==
    CASE config_path = "repair1.json"  -> [agents |-> [max_repair_attempts |-> 1]]
      [] config_path = "rounds5.json"  -> [agents |-> [max_consecutive_replies |-> 5]]
      [] config_path = "database.yaml" -> [database |-> [path |-> "/srv/bird"]]
      [] OTHER                         -> [debug_mode |-> TRUE]

\* the db_path arguments of the model
DbPaths == {"./data/databases", "dbs/dev", "dbs/test"}

\* _deep_update(d[k], v) for a dictionary d[k] of scalars: updated in place
UpdateNested(dk, v) == [key \in DOMAIN dk |-> IF key \in DOMAIN v THEN v[key] ELSE dk[key]]

\* _deep_update(config, file_config), where config = DEFAULT_CONFIG.copy() is a
\* copy of the top level only: config["llm"], config["database"] and
\* config["agents"] are the very dictionaries DEFAULT_CONFIG holds. The
\* recursion updates those in place (both config and DEFAULT_CONFIG see it);
\* d[k] = v for a scalar k changes the copy alone.
\*   shared: the three nested dictionaries after the update
\*   config: the copy after the update
_deep_update(defaults, u) ==
    LET shared == [k \in {"llm", "database", "agents"} |->
                      IF k \in DOMAIN u THEN UpdateNested(defaults[k], u[k])
                                        ELSE defaults[k]]
    IN [shared |-> shared,
        config |-> [llm |-> shared["llm"], database |-> shared["database"],
                    agents |-> shared["agents"],
                    debug_mode |-> IF "debug_mode" \in DOMAIN u THEN u.debug_mode
                                   ELSE defaults.debug_mode]]

\* the empty file_config: no file is given
NoFile == [none |-> TRUE]

\* load_config(config_path) run with the module's dictionary holding `defaults`:
\*   config        : the dictionary returned (with database_config, which
\*                   get_database_config copies from DEFAULT_CONFIG["database"]
\*                   and updates with config["database"], and the limits
\*                   create_agent_configs reads)
\*   DEFAULT_CONFIG: the module's dictionary afterwards
load_config(defaults, config_path) ==
    LET file_config == IF config_path = None THEN NoFile
                       ELSE load_config_from_file(config_path)
        updated == _deep_update(defaults, file_config)
        config_ == updated.config
    IN [config |-> [llm |-> config_.llm, database |-> config_.database,
                    agents |-> config_.agents, debug_mode |-> config_.debug_mode,
                    database_config |-> config_.database,
                    agent_configs |-> config_.agents],
        DEFAULT_CONFIG |-> [llm |-> updated.shared["llm"],
                            database |-> updated.shared["database"],
                            agents |-> updated.shared["agents"],
                            debug_mode |-> defaults.debug_mode]]

\* BirdSQLOrchestrator.__init__(db_path, config_path), lines 41-42:
\* config = load_config(config_path); config["database"]["path"] = db_path.
\* config["database"] is the dictionary DEFAULT_CONFIG["database"].
Orchestrator_init(defaults, db_path, config_path) ==
    LET loaded == load_config(defaults, config_path)
    IN [db_path |-> db_path,
        DEFAULT_CONFIG |-> [loaded.DEFAULT_CONFIG EXCEPT !.database.path = db_path]]

InitConfig ==
    /\ pc = "config"
    /\ probe = [DEFAULT_CONFIG |-> DEFAULT_CONFIG_literal,
                config_path |-> None, returned |-> None,
                orchestrators |-> 0, loads |-> 0]
    /\ messages = <<>>
    /\ result = InitialResult
    /\ outcome = "running"
    /\ dbExists = TRUE
    /\ config \in {c \in ConfigFiles : c.max_repair_attempts = MAX_REPAIR_ATTEMPTS
                                        /\ c.max_consecutive_replies = MAX_CONSECUTIVE_AUTO_REPLY}
    /\ execCalls = 0
    /\ repairCalls = 0
    /\ calls = 1
    /\ executor_db_path = "directory"
    /\ prev = NotRecorded

\* a call of load_config by the program
LoadConfig ==
    /\ pc = "config"
    /\ probe.loads < MaxLoads
    /\ \E config_path \in ConfigPaths \cup {None} :
       \E loaded \in {load_config(probe.DEFAULT_CONFIG, config_path)} :
          probe' = [probe EXCEPT !.DEFAULT_CONFIG = loaded.DEFAULT_CONFIG,
                                 !.config_path = config_path,
                                 !.returned = loaded.config,
                                 !.loads = @ + 1]
    /\ UNCHANGED <<pc, messages, result, outcome, dbExists, config, execCalls,
                   repairCalls, calls, executor_db_path, prev>>

\* the construction of an orchestrator
NewOrchestrator ==
    /\ pc = "config"
    /\ probe.orchestrators < MaxOrchestrators
    /\ \E db_path \in DbPaths, config_path \in ConfigPaths \cup {None} :
       \E built \in {Orchestrator_init(probe.DEFAULT_CONFIG, db_path, config_path)} :
          probe' = [probe EXCEPT !.DEFAULT_CONFIG = built.DEFAULT_CONFIG,
                                 !.orchestrators = @ + 1]
    /\ UNCHANGED <<pc, messages, result, outcome, dbExists, config, execCalls,
                   repairCalls, calls, executor_db_path, prev>>

ConfigNext == LoadConfig \/ NewOrchestrator

ConfigSpec == InitConfig /\ [][ConfigNext]_vars

\* ------------------------------------------------------------ observations
\* attempts_used: the Repairer's turns in the conversation plus the repair
\* calls process_question makes itself
RepairTurns == Cardinality({i \in 1..Len(messages) : messages[i].name = "repair"}) + repairCalls

\* rounds: the messages of the conversation
Rounds == Len(messages)

ValidatorTurns == {i \in 1..Len(messages) : messages[i].name = "validator"}

LatestValidatorText ==
    messages[CHOOSE i \in ValidatorTurns : \A j \in ValidatorTurns : j <= i].content

HasRole(role) == \E i \in 1..Len(messages) : messages[i].name = role

\* the conversation has ended: by the selector after a Validator pass, or by the cap
ConversationEnded ==
    \/ pc = "done"
    \/ /\ pc = "chat"
       /\ \/ Len(messages) >= MAX_CONSECUTIVE_AUTO_REPLY
          \/ /\ Last(messages).name = "validator"
             /\ Last(messages).content.val \in {"PASS", "pass"}

\* the conversation was cut by the cap while the selector named a next role
CutByRoundCap ==
    /\ Len(messages) >= MAX_CONSECUTIVE_AUTO_REPLY
    /\ ~(Last(messages).name = "validator" /\ Last(messages).content.val \in {"PASS", "pass"})

\* the text has neither a fenced block nor a labeled query
NoSqlLikeText(c) == c.fence = "none" /\ c.label = "none"

\* the message is a repair update: the Repairer's REPAIRED SQL QUERY: section
IsRepairUpdate(m) == m.name = "repair" /\ m.content.label = "repaired"

\* the speakers of the history, in order
Speakers == [i \in 1..Len(messages) |-> messages[i].name]

\* the conversation of one repair: the Generator's first query fails at the
\* Executor, the Repairer speaks once, the Generator gives another query, its
\* execution succeeds and the Validator passes
OneRepairScenario ==
    /\ Speakers = <<"user", "interpreter", "schema", "generator", "executor",
                    "repair", "generator", "executor", "validator">>
    /\ SqlMatch(messages[4].content) # None
    /\ ContainsError(messages[5].content)
    /\ SqlMatch(messages[7].content) \notin {None, SqlMatch(messages[4].content)}
    /\ ~ContainsError(messages[8].content)
    /\ messages[9].content.val = "PASS"

\* the history up to and including message k
Prefix(k) == SubSeq(messages, 1, k)

\* ------------------------------------------------------------------- claims
\* C1: in every terminal state of a run the number of Repairer turns is at
\* most MAX_REPAIR_ATTEMPTS (3) and the number of rounds is at most
\* MAX_CONSECUTIVE_AUTO_REPLY (10).
C1_BoundsRespected ==
    pc = "done" => /\ RepairTurns <= MAX_REPAIR_ATTEMPTS
                   /\ Rounds <= MAX_CONSECUTIVE_AUTO_REPLY

\* a run cut by the round cap after two Repairer turns
C1_Witness ==
    pc = "done" /\ Rounds = MAX_CONSECUTIVE_AUTO_REPLY /\ RepairTurns = 2

\* C2: when every external call returns, every run reaches a terminal state
\* (process_question returns its result).
C2_Terminates == <>(pc = "done" /\ outcome = "returned")

\* a run that ended by the cap in the clarification loop: the Generator never
\* emitted SQL, so the Executor never spoke
C2_Witness ==
    /\ pc = "done" /\ outcome = "returned"
    /\ Rounds = MAX_CONSECUTIVE_AUTO_REPLY
    /\ ~HasRole("executor")

\* the repair loop: every execution failed and the cap ended the run
C2_WitnessRepairLoop ==
    /\ pc = "done" /\ outcome = "returned"
    /\ Rounds = MAX_CONSECUTIVE_AUTO_REPLY
    /\ \A i \in 1..Len(messages) : messages[i].name = "executor" => messages[i].content.errorWord
    /\ RepairTurns = 2

\* C3: process_question never raises: when the conversation or the direct
\* execution fails the call still returns the result, with the question set.
C3_NeverRaises ==
    /\ outcome # "raised"
    /\ pc = "done" => outcome = "returned" /\ result.question = Question

\* the direct execution failed and the result was returned
C3_Witness ==
    /\ pc = "done" /\ outcome = "returned" /\ execCalls = 1
    /\ result.error_message = ErrorText("AttributeError")

\* the conversation failed and the result was returned
C3_WitnessDispatch ==
    /\ pc = "done" /\ outcome = "returned"
    /\ result.error_message = ErrorText("DispatchFailure")

\* C4: the validation_status of every returned result is PASS or FAIL.
C4_VerdictPassOrFail ==
    pc = "done" => result.validation_status \in {"PASS", "FAIL"}

\* a returned result whose conversation carried no verdict the extractor reads
C4_Witness ==
    /\ pc = "done" /\ outcome = "returned"
    /\ _extract_results(messages).validation_status = None
    /\ HasRole("validator")

\* C5: a returned result with verdict FAIL has a populated error message.
C5_FailHasErrorMessage ==
    (pc = "done" /\ result.validation_status = "FAIL") => Truthy(result.error_message)

\* C6: once the Repairer's turns exceed the configured max_repair_attempts the
\* run has been terminated with verdict FAIL and the error text
\* "repair attempts exhausted".
C6_RepairExhausted ==
    RepairTurns > config.max_repair_attempts =>
        /\ pc = "done"
        /\ result.validation_status = "FAIL"
        /\ result.error_message = "repair attempts exhausted"

\* C7: a run that the round cap ended returns the error text
\* "round limit exceeded".
C7_RoundLimitText ==
    (pc = "done" /\ outcome = "returned" /\ CutByRoundCap)
        => result.error_message = "round limit exceeded"

C9_LatestVerdictWins ==
    /\ (pc = "done" /\ ValidatorTurns # {} /\ LatestValidatorText.val = "PASS")
          => result.validation_status = "PASS"
    /\ (pc = "chat" /\ Last(messages).name = "validator" /\ Last(messages).content.val = "FAIL")
          => NextSpeaker(messages) = "repair"

\* C10: after a Generator message without SQL-like text the selector names
\* the Interpreter, and the Interpreter is the role that speaks next.
C10_NoSqlToInterpreter ==
    /\ (pc = "chat" /\ Last(messages).name = "generator" /\ NoSqlLikeText(Last(messages).content))
          => NextSpeaker(messages) = "interpreter"
    /\ \A i \in 1..(Len(messages) - 1) :
          (messages[i].name = "generator" /\ NoSqlLikeText(messages[i].content))
              => messages[i + 1].name = "interpreter"

\* the Interpreter spoke again after a Generator message without SQL
C10_Witness ==
    \E i \in 1..(Len(messages) - 1) :
        /\ messages[i].name = "generator"
        /\ NoSqlLikeText(messages[i].content)
        /\ messages[i + 1].name = "interpreter"

\* C11: the selector is total: for every last speaker (one of the seven roles,
\* or none of them) and every message text, one call yields one outcome, which
\* is one of the seven roles or the end of the conversation; no call fails.
C11_SelectorTotal ==
    pc = "selected" => probe.next \in Roles \cup {NoSpeaker}

\* the selector was applied to a Validator message that passes (it ends the
\* conversation), and to a last speaker that is none of the agents
C11_Witness ==
    /\ pc = "selected"
    /\ Len(messages) = 1
    /\ \/ probe.sender = "validator" /\ messages[1].content = ValPass /\ probe.next = NoSpeaker
       \/ probe.sender = None /\ probe.next = "user"

\* C12: when the extractor reads two messages in order, both holding SQL and
\* the queries differing, the extracted sql is the query of the first one,
\* unless the later message is a repair update (REPAIRED SQL QUERY: from the
\* Repairer): then the extracted sql is the repaired query.
C12_FirstSqlUnlessRepaired ==
    \A i, j \in 1..Len(messages) :
        (/\ i < j
         /\ SqlMatch(messages[i].content) # None
         /\ SqlMatch(messages[j].content) # None
         /\ SqlMatch(messages[i].content) # SqlMatch(messages[j].content))
        => _extract_results(<<messages[i], messages[j]>>).sql =
              IF IsRepairUpdate(messages[j]) THEN messages[j].content.labelQ
              ELSE SqlMatch(messages[i].content)

\* C13: every field of the extractor's running result keeps the first
\* non-empty value stored in it: reading one more message never changes a
\* field that already holds a value; this includes the error text when the
\* next message has a validation marker followed by an explanation.
C13_FirstValueKept ==
    \A k \in 1..(Len(messages) - 1) :
        LET before == _extract_results(Prefix(k))
            after  == _extract_results(Prefix(k + 1))
        IN /\ before.sql # None => after.sql = before.sql
           /\ before.execution_results # None
                 => after.execution_results = before.execution_results
           /\ before.validation_status # None
                 => after.validation_status = before.validation_status
           /\ before.error_message # None
                 => after.error_message = before.error_message

\* C14: in the run where the first query fails at the Executor, the Repairer
\* is invoked once, the next execution succeeds and the Validator passes, the
\* Repairer has been dispatched exactly once, the returned verdict is PASS and
\* the returned sql is the corrected query, not the failing one.
C14_OneRepairThenPass ==
    (pc = "done" /\ outcome = "returned" /\ OneRepairScenario) =>
        /\ RepairTurns = 1
        /\ result.validation_status = "PASS"
        /\ result.sql = SqlMatch(messages[7].content)

\* C15: a dispatch that fails is treated as an empty message: the run is not
\* aborted (the conversation goes on with one more message in the history,
\* from the role the selector named) and the fields extracted from the earlier
\* messages are kept in the result that is returned.
C15_DispatchFailureIsEmptyMessage ==
    /\ [][DispatchFails =>
             /\ pc' = "chat"
             /\ Len(messages') = Len(messages) + 1
             /\ Last(messages').name = NextSpeaker(messages)]_vars
    /\ [](pc = "done" =>
             \A extracted \in {_extract_results(messages)} :
                 Truthy(extracted.sql) => result.sql = extracted.sql)

\* C16: when the database of the question does not exist the run fails at
\* once with the Database-not-found error message: the Repairer is invoked
\* neither in the conversation nor after it, and the result returned is FAIL
\* with that message.
C16_MissingDatabaseFailsAtOnce ==
    ~dbExists =>
        /\ RepairTurns = 0
        /\ pc = "done" => /\ result.validation_status = "FAIL"
                          /\ result.error_message = "Database file not found"

\* C17: the round cap and the repair cap in force are the values of the
\* configuration the orchestrator was constructed with: a run never has more
\* rounds than the configured max_consecutive_replies nor more Repairer turns
\* than the configured max_repair_attempts, whatever values the file sets.
C17_ConfiguredCapsEnforced ==
    /\ Rounds <= config.max_consecutive_replies
    /\ RepairTurns <= config.max_repair_attempts

\* C18: two runs of process_question on the same question in which the roles
\* give the same outputs and the executions have the same outcomes select the
\* same speakers in the same order (the end of the conversation included)
\* and return the same result.
C18_SameInputsSameRun ==
    prev.recorded =>
        /\ Len(messages) <= Len(prev.messages)
        /\ \A i \in 1..Len(messages) : messages[i].name = prev.messages[i].name
        /\ (pc = "chat" /\ Len(messages) = Len(prev.messages) /\ ~FailedBefore)
              => ChatOver(messages)
        /\ pc = "done" => messages = prev.messages /\ result = prev.result

\* a run with two Repairer turns, cut by the round cap, was run again with the
\* same outputs and has returned
C18_Witness ==
    /\ prev.recorded
    /\ pc = "done"
    /\ Len(prev.messages) = MAX_CONSECUTIVE_AUTO_REPLY
    /\ RepairTurns = 2
    /\ result = prev.result

C20_NothingPersists ==
    /\ pc = "start" =>
          /\ messages = <<>>
          /\ result = InitialResult
          /\ RepairTurns = 0
          /\ execCalls = 0
    /\ pc \in {"chat", "done"} =>
          {i \in 1..Len(messages) : messages[i].name = "user"} = {1}
    /\ (pc = "done" /\ ChatOver(messages)) =>
          result = DirectExecution(MergeResults(InitialResult, _extract_results(messages)),
                                   dbExists).result
    /\ (pc = "done" /\ ~ChatOver(messages)) =>
          result = ExceptHandler(InitialResult, "DispatchFailure").result

\* a second call has returned a result without SQL on an orchestrator whose
\* first call went as far as the direct execution of its query
C20_Witness ==
    /\ calls = 2
    /\ pc = "done"
    /\ executor_db_path = "db_file"
    /\ result.sql = None
    /\ HasRole("generator")

\* C21: every outcome the SQL executor reports is a structured value whose
\* success is true exactly when its error is unset; when the database file is
\* missing the outcome is a failure and the query has not been run; a failure
\* for a missing table or column carries an added marker that names the
\* object, and no other failure carries such a marker.
C21_StructuredExecutionOutcome ==
    pc = "executed" =>
        LET out == probe.out IN
        /\ out.success <=> out.error = NoError
        /\ probe.db = "missing" => ~out.success /\ ~out.ran
        /\ out.error.text \in {"no such table", "no such column"}
              => out.error.marker = out.error.object
        /\ out.error.text \notin {"no such table", "no such column"}
              => out.error.marker = None

\* C22: for a Generator message the selector and the extractor agree: the
\* selector names the Executor exactly when the extractor takes a query from
\* that message (labeled section, sql-tagged fence, generic fence that begins
\* with SELECT), and names the Interpreter otherwise.
C22_SelectorAgreesWithExtractor ==
    (pc = "extracted" /\ Len(messages) = 1 /\ messages[1].name = "generator") =>
        /\ probe.next \in {"executor", "interpreter"}
        /\ probe.next = "executor" <=> probe.extracted.sql # None

\* C23: after an Executor turn the selector names the Repairer when the
\* Executor's message carries an error indicator and the Validator when it
\* does not; it never ends the conversation there and names no other role.
C23_ExecutorBranch ==
    /\ (pc = "chat" /\ Last(messages).name = "executor") =>
          NextSpeaker(messages) =
              IF ContainsError(Last(messages).content) THEN "repair" ELSE "validator"
    /\ \A i \in 1..(Len(messages) - 1) :
          messages[i].name = "executor" =>
              messages[i + 1].name =
                  IF ContainsError(messages[i].content) THEN "repair" ELSE "validator"

\* both cases in one run: an Executor error answered by the Repairer, and an
\* Executor report answered by the Validator
C23_Witness ==
    /\ \E i \in 1..(Len(messages) - 1) :
          /\ messages[i].name = "executor" /\ ContainsError(messages[i].content)
          /\ messages[i + 1].name = "repair"
    /\ \E i \in 1..(Len(messages) - 1) :
          /\ messages[i].name = "executor" /\ ~ContainsError(messages[i].content)
          /\ messages[i + 1].name = "validator"

\* C24: after a Validator turn whose message carries neither a pass marker nor
\* a fail marker the selector names the Repairer, as it does for a fail
\* marker; the conversation does not end on such a message.
C24_UnknownVerdictToRepairer ==
    /\ (pc = "chat" /\ Last(messages).name = "validator"
           /\ Last(messages).content.val = "none")
          => /\ NextSpeaker(messages) = "repair"
             /\ (RoundLimitReached(messages) \/ ~ChatOver(messages))
    /\ \A i \in 1..(Len(messages) - 1) :
          (messages[i].name = "validator" /\ messages[i].content.val \in {"none", "FAIL", "fail"})
              => messages[i + 1].name = "repair"
    /\ (pc = "done" /\ outcome = "returned" /\ ChatOver(messages)
           /\ Last(messages).name = "validator" /\ Last(messages).content.val = "none")
          => RoundLimitReached(messages)

\* the Repairer spoke after a Validator message without a verdict
C24_Witness ==
    \E i \in 1..(Len(messages) - 1) :
        /\ messages[i].name = "validator"
        /\ messages[i].content.val = "none"
        /\ messages[i + 1].name = "repair"

\* C25: after a Repairer turn the selector names the Generator, whether the
\* Repairer's message holds a REPAIRED SQL QUERY: section or not; the Executor
\* never speaks directly after the Repairer.
C25_RepairerToGenerator ==
    /\ (pc = "chat" /\ Last(messages).name = "repair") => NextSpeaker(messages) = "generator"
    /\ \A i \in 1..(Len(messages) - 1) :
          messages[i].name = "repair" =>
              messages[i + 1].name = "generator" /\ messages[i + 1].name # "executor"

\* the Generator spoke after a Repairer message with a repaired query, and
\* after one without
C25_Witness ==
    /\ \E i \in 1..(Len(messages) - 1) :
          /\ messages[i].name = "repair" /\ messages[i].content.label = "repaired"
          /\ messages[i + 1].name = "generator"
    /\ \E i \in 1..(Len(messages) - 1) :
          /\ messages[i].name = "repair" /\ messages[i].content.label = "none"
          /\ messages[i + 1].name = "generator"

\* C26: in every run the first three roles that speak after the user's
\* opening message are the Interpreter, the SchemaRetriever and the Generator,
\* in this order, whatever their messages say.
C26_OpeningOrder ==
    /\ Len(messages) >= 1 => messages[1].name = "user"
    /\ Len(messages) >= 2 => messages[2].name = "interpreter"
    /\ Len(messages) >= 3 => messages[3].name = "schema"
    /\ Len(messages) >= 4 => messages[4].name = "generator"
    /\ (pc = "chat" /\ Len(messages) <= 3) => ~ChatOver(messages)

\* the Generator spoke fourth after an Interpreter and a SchemaRetriever
\* message that carry a fenced SELECT, the word "error" and "validation: pass"
C26_Witness ==
    /\ Len(messages) >= 4
    /\ messages[2].content = Signals
    /\ messages[3].content = Signals
    /\ messages[4].name = "generator"

\* C27: within one message the sql field is taken from the first rule that
\* matches, in the order (a) fence tagged as SQL, (b) fence that begins with
\* SELECT, (c) free-standing SELECT statement with a terminator, (d) REPAIRED
\* SQL QUERY: section; a message that matches several of them yields the
\* value of the earliest.
C27_SqlRulePriority ==
    (pc = "extracted" /\ Len(messages) = 1) =>
        LET c == messages[1].content
            a == c.fence \in {"sql", "sql_other"}
            b == c.fence = "generic"
            d == c.label = "repaired"
        IN (a \/ b \/ c.free \/ d) =>
              probe.extracted.sql = IF a \/ b THEN c.fenceQ
                                    ELSE IF c.free THEN c.freeQ
                                    ELSE c.labelQ

\* C28: the extractor stores either the parsed execution payload or, when the
\* section does not parse, its raw text, never both; and a raw text stored on
\* a parse failure is the execution payload of the result that is returned.
C28_PayloadOrRawNeverBoth ==
    pc = "extracted" =>
        /\ ~(probe.extracted.execution_results # None /\ probe.extracted.raw_output # None)
        /\ (probe.extracted.raw_output # None /\ probe.extracted.execution_results = None)
              => probe.merged.execution_results = probe.extracted.raw_output

\* C29: a message that matches no rule leaves every field of the running
\* result as it was, and each SQL extractor of the program (the
\* orchestrator's, the Generator's _extract_sql, the Repairer's _extract_sql)
\* returns None, not some text, for a message in which none of its SQL rules
\* matches.
C29_MissYieldsUnset ==
    pc = "extracted" =>
        LET c == Last(messages).content IN
        /\ (Len(messages) = 2 /\ SqlMatch(c) = None /\ c.exec = "none"
               /\ ValidationMatch(c) = None /\ ErrorMatch(c) = None)
              => probe.extracted = _extract_results(<<messages[1]>>)
        /\ (Len(messages) = 1 /\ SqlMatch(c) = None) => probe.extracted.sql = None
        /\ (c.label # "repaired" /\ c.fence \notin {"sql", "generic", "generic_lower"} /\ ~c.free)
              => probe.repair_sql = None
        /\ (c.fence \notin {"sql", "sql_other", "generic"} /\ ~c.free)
              => probe.generator_sql = None

\* C30: an explicit VALIDATION: PASS / VALIDATION: FAIL marker decides the
\* verdict whatever sentiment markers the text holds; without an explicit
\* marker the verdict is the side that has strictly more markers in the last
\* sentences, and a tie or the absence of markers there is never a pass.
C30_VerdictCheck ==
    pc = "validated" =>
        LET r == probe.response
            positive == Cardinality(r.last \cap pass_markers)
            negative == Cardinality(r.last \cap fail_markers)
        IN /\ r.explicit = "PASS" => probe.is_valid = TRUE
           /\ r.explicit = "FAIL" => probe.is_valid = FALSE
           /\ r.explicit = "none" => (probe.is_valid = TRUE <=> positive > negative)

\* C31: the configuration is immutable after loading: load_config and the
\* construction of an orchestrator never modify the module-level default
\* configuration, and a call of load_config without a file returns the defaults
\* of the module, whatever was loaded or constructed before it.
C31_DefaultsImmutable ==
    pc = "config" =>
        /\ probe.DEFAULT_CONFIG = DEFAULT_CONFIG_literal
        /\ (probe.loads > 0 /\ probe.config_path = None) =>
               probe.returned = load_config(DEFAULT_CONFIG_literal, None).config

C33_WitnessException ==
    /\ pc = "done" /\ outcome = "returned"
    /\ result.error_message = ErrorText("DispatchFailure")
    /\ result.validation_status = "FAIL"
    /\ HasRole("validator")

\* C34: when the conversation yields a query but no execution payload and
\* the database file exists, the query is executed directly and the outcome
\* of that execution decides the result: an execution that reports success
\* makes the result carry the execution outcome as its payload with verdict
\* PASS, and an execution that reports failure is followed by the repair
\* (whose query, when it executes successfully, gives the repaired SQL, its
\* outcome and verdict PASS).
C34_DirectExecutionDecides ==
    (pc = "done" /\ dbExists /\ outcome = "returned"
       /\ NeedsDirectExecution(MergeResults(InitialResult, _extract_results(messages)))) =>
        /\ execCalls >= 1
        /\ \/ result.execution_results = "rows" /\ result.validation_status = "PASS"
           \/ repairCalls >= 1

C36_EndOnlyAfterValidator ==
    /\ (pc = "chat" /\ Last(messages).name # "validator") =>
          NextSpeaker(messages) \in Roles
    /\ (pc \in {"chat", "done"} /\ ChatOver(messages) /\ ~RoundLimitReached(messages)) =>
          Last(messages).name = "validator"
    /\ \A sender \in Senders \ {"validator"}, c \in AllTexts :
          select_next_speaker(<<[name |-> sender, content |-> c]>>, sender) \in Roles

\* a conversation that ended before the cap after a Validator turn, although
\* the Interpreter's message carried the pass marker as well
C36_Witness ==
    /\ pc = "done" /\ outcome = "returned"
    /\ ChatOver(messages) /\ ~RoundLimitReached(messages)
    /\ Last(messages).name = "validator"
    /\ \E i \in 1..Len(messages) :
          messages[i].name = "interpreter" /\ ContainsValidationPass(messages[i].content)

\* C37: in every conversation the turn order respects the pipeline: every
\* Executor turn comes right after a Generator turn whose message holds a
\* fenced SELECT block, every Validator turn right after an Executor turn
\* without an error indicator, and every Repairer turn right after an Executor
\* turn with an error indicator or a Validator turn without a pass marker.
C37_PipelineOrder ==
    \A i \in 1..Len(messages) :
        /\ messages[i].name \in {"executor", "validator", "repair"} => i > 1
        /\ (i > 1 /\ messages[i].name = "executor") =>
              /\ messages[i - 1].name = "generator"
              /\ GeneratorSqlPattern(messages[i - 1].content)
        /\ (i > 1 /\ messages[i].name = "validator") =>
              /\ messages[i - 1].name = "executor"
              /\ ~ContainsError(messages[i - 1].content)
        /\ (i > 1 /\ messages[i].name = "repair") =>
              \/ /\ messages[i - 1].name = "executor"
                 /\ ContainsError(messages[i - 1].content)
              \/ /\ messages[i - 1].name = "validator"
                 /\ ~ContainsValidationPass(messages[i - 1].content)

\* one conversation with a Repairer turn after an Executor error and another
\* after a Validator turn that did not pass
C37_Witness ==
    /\ \E i \in 2..Len(messages) :
          /\ messages[i].name = "repair"
          /\ messages[i - 1].name = "executor"
    /\ \E i \in 2..Len(messages) :
          /\ messages[i].name = "repair"
          /\ messages[i - 1].name = "validator"
          /\ messages[i - 2].name = "executor"
          /\ messages[i - 3].name = "generator"

\* C38: the selector and the extractor agree on the Validator's verdict for
\* one message: whenever the selector ends the conversation on a Validator
\* message, the extractor applied to that message alone yields the verdict
\* PASS, also for a marker written in another letter case and for a message
\* that holds both a FAIL and a PASS marker.
C38_EndMeansExtractedPass ==
    (pc = "extracted" /\ Last(messages).name = "validator" /\ probe.next = NoSpeaker) =>
        _extract_results(<<Last(messages)>>).validation_status = "PASS"

====
